---------------------------- MODULE Spec2Model ----------------------------
(***************************************************************************)
(* Model of lead_reader: the lead deduplicator (bats_logic.py), the sales  *)
(* matcher (sales_logic.py) and the per-source report (compare.py).        *)
(*                                                                         *)
(* A DataFrame is a record [cols, rows]: cols is the sequence of column    *)
(* names, rows the sequence of rows, each row a sequence of cells aligned  *)
(* with cols.  A string is a sequence of one-character strings, so that    *)
(* str.strip, str.lower, the substring test, the currency regex and        *)
(* float() are computed character by character.  A cell is a tagged        *)
(* record: a string, NaN/None, or a number.  Money is held in hundredths,  *)
(* lead costs in thousandths.                                              *)
(***************************************************************************)
EXTENDS Integers, Sequences, FiniteSets, TLC

VARIABLES
    pc,          \* which call has been made: the position of the caller
    leads,       \* the lead (BATS) DataFrame handed in
    sales,       \* the sales DataFrame handed in
    dedup,       \* result of clean_bats_duplicates(leads)
    redup,       \* result of clean_bats_duplicates(dedup.out)
    match,       \* result of process_sales_data(sales, leads)
    cmpleads,    \* the lead DataFrame handed to compare_bats_sales
    report       \* result of compare_bats_sales(cmpleads, match.out)

vars == <<pc, leads, sales, dedup, redup, match, cmpleads, report>>

(***************************************************************************)
(* Characters and strings                                                  *)
(***************************************************************************)

\* The characters used, in code point order (Python compares str by code point).
CodeOrder ==
    << "\t", " ", "$", "'", "(", ")", ",", "-", ".", "/",
       "0", "1", "2", "3", "4", "5", "6", "7", "8", "9", ":",
       "A", "B", "C", "D", "E", "F", "G", "H", "I", "J", "K", "L", "M",
       "N", "O", "P", "Q", "R", "S", "T", "U", "V", "W", "X", "Y", "Z", "_",
       "a", "b", "c", "d", "e", "f", "g", "h", "i", "j", "k", "l", "m",
       "n", "o", "p", "q", "r", "s", "t", "u", "v", "w", "x", "y", "z", "|" >>

CharRank == [c \in {CodeOrder[i] : i \in 1..Len(CodeOrder)} |->
                CHOOSE i \in 1..Len(CodeOrder) : CodeOrder[i] = c]

UpperCase == << "A", "B", "C", "D", "E", "F", "G", "H", "I", "J", "K", "L", "M",
                "N", "O", "P", "Q", "R", "S", "T", "U", "V", "W", "X", "Y", "Z" >>

LowerCase == << "a", "b", "c", "d", "e", "f", "g", "h", "i", "j", "k", "l", "m",
                "n", "o", "p", "q", "r", "s", "t", "u", "v", "w", "x", "y", "z" >>

Digits == << "0", "1", "2", "3", "4", "5", "6", "7", "8", "9" >>

IsDigit(c) == \E i \in 1..10 : Digits[i] = c

DigitVal(c) == (CHOOSE i \in 1..10 : Digits[i] = c) - 1

IsSpace(c) == c \in {" ", "\t"}

LowerOf == [c \in {UpperCase[i] : i \in 1..26} |->
              LowerCase[CHOOSE i \in 1..26 : UpperCase[i] = c]]

LowerChar(c) == IF c \in DOMAIN LowerOf THEN LowerOf[c] ELSE c

\* str.lower()
Lower(s) == [i \in 1..Len(s) |-> LowerChar(s[i])]

RECURSIVE LStrip(_)
LStrip(s) == IF s # <<>> /\ IsSpace(Head(s)) THEN LStrip(Tail(s)) ELSE s

RECURSIVE RStrip(_)
RStrip(s) ==
    IF s # <<>> /\ IsSpace(s[Len(s)]) THEN RStrip(SubSeq(s, 1, Len(s) - 1)) ELSE s

\* str.strip()
Strip(s) == RStrip(LStrip(s))

\* pat in s
Contains(s, pat) ==
    \E i \in 0..(Len(s) - Len(pat)) : \A k \in 1..Len(pat) : s[i + k] = pat[k]

\* a < b on str
RECURSIVE StrLess(_, _)
StrLess(a, b) ==
    IF a = <<>> THEN b # <<>>
    ELSE IF b = <<>> THEN FALSE
    ELSE IF Head(a) = Head(b) THEN StrLess(Tail(a), Tail(b))
    ELSE CharRank[Head(a)] < CharRank[Head(b)]

\* The decimal digits of a natural number.
RECURSIVE NatStr(_)
NatStr(n) == IF n < 10 THEN <<Digits[n + 1]>> ELSE NatStr(n \div 10) \o <<Digits[(n % 10) + 1]>>

\* sep.join(parts)
RECURSIVE Join(_, _)
Join(sep, parts) ==
    IF parts = <<>> THEN <<>>
    ELSE IF Len(parts) = 1 THEN parts[1]
    ELSE parts[1] \o sep \o Join(sep, Tail(parts))

(***************************************************************************)
(* Cells                                                                   *)
(***************************************************************************)

Str(s) == [t |-> "str", s |-> s, n |-> 0]

NaN == [t |-> "nan", s |-> <<>>, n |-> 0]

Num(n) == [t |-> "num", s |-> <<>>, n |-> n]

\* pd.notna
NotNa(v) == v.t # "nan"

\* str(x) of a float held in hundredths: "100.0", "5.5", "5.25", "-5.0"
FloatRepr(n) ==
    LET a == IF n < 0 THEN -n ELSE n
        f == a % 100
        frac == IF f % 10 = 0 THEN NatStr(f \div 10) ELSE NatStr(f \div 10) \o NatStr(f % 10)
    IN  (IF n < 0 THEN <<"-">> ELSE <<>>) \o NatStr(a \div 100) \o <<".">> \o frac

\* astype(str) / str(v) of one cell: NaN becomes the string "nan"
AsStr(v) ==
    IF v.t = "str" THEN v.s
    ELSE IF v.t = "nan" THEN <<"n", "a", "n">>
    ELSE FloatRepr(v.n)

\* .astype(str).str.strip().str.lower() of one cell
NormText(v) == Str(Lower(Strip(AsStr(v))))

(***************************************************************************)
(* DataFrames                                                              *)
(***************************************************************************)

\* None, for a column that was not found (no column name is this value:
\* a column name is a sequence of single characters)
None == <<"None">>

Frame(c, r) == [cols |-> c, rows |-> r]

EmptyFrame == Frame(<<>>, <<>>)

\* next((c for c in cols if tok in str(c).lower()), None)
RECURSIVE FirstContaining(_, _)
FirstContaining(cols, tok) ==
    IF cols = <<>> THEN None
    ELSE IF Contains(Lower(Head(cols)), tok) THEN Head(cols)
    ELSE FirstContaining(Tail(cols), tok)

HasCol(df, c) == \E i \in 1..Len(df.cols) : df.cols[i] = c

ColIdx(df, c) == CHOOSE i \in 1..Len(df.cols) : df.cols[i] = c

\* df[c] of one row
At(df, row, c) == row[ColIdx(df, c)]

\* df[c] = df[c].astype(str).str.strip().str.lower()
NormalizeCol(df, c) ==
    LET k == ColIdx(df, c)
    IN  Frame(df.cols, [i \in 1..Len(df.rows) |->
                          [df.rows[i] EXCEPT ![k] = NormText(df.rows[i][k])]])

\* the values of the columns cs, in the order of cs
Key(df, row, cs) == [i \in 1..Len(cs) |-> At(df, row, cs[i])]

\* the sort order of string cells: by code point, NaN after every string
CellLess(a, b) ==
    IF ~NotNa(a) THEN FALSE
    ELSE IF ~NotNa(b) THEN TRUE
    ELSE StrLess(AsStr(a), AsStr(b))

\* a < b on tuples of string cells
RECURSIVE KeyLess(_, _)
KeyLess(a, b) ==
    IF a = <<>> THEN FALSE
    ELSE IF a[1] = b[1] THEN KeyLess(Tail(a), Tail(b))
    ELSE CellLess(a[1], b[1])

\* a set of key tuples as a sequence in ascending order
RECURSIVE SortKeys(_)
SortKeys(S) ==
    IF S = {} THEN <<>>
    ELSE LET m == CHOOSE x \in S : \A y \in S \ {x} : KeyLess(x, y)
         IN  <<m>> \o SortKeys(S \ {m})

\* the group keys of df.groupby(cs): sorted, and (dropna=True) without the
\* keys that hold a NaN
GroupKeys(df, cs, dropna) ==
    SortKeys({k \in {Key(df, df.rows[i], cs) : i \in 1..Len(df.rows)} :
                 dropna => \A j \in 1..Len(cs) : NotNa(k[j])})

\* the rows of one group, in their order
GroupRows(df, cs, k) == SelectSeq(df.rows, LAMBDA row : Key(df, row, cs) = k)

(***************************************************************************)
(* Column names and the substrings they are searched for                   *)
(***************************************************************************)

H_Phone == <<"P", "h", "o", "n", "e">>

H_AssignedTo == <<"A", "s", "s", "i", "g", "n", "e", "d", " ", "T", "o">>

H_Source == <<"S", "o", "u", "r", "c", "e">>

H_TotalLeads == <<"T", "o", "t", "a", "l", " ", "L", "e", "a", "d", "s">>

T_assigned == <<"a", "s", "s", "i", "g", "n", "e", "d">>

T_phone == <<"p", "h", "o", "n", "e">>

T_source == <<"s", "o", "u", "r", "c", "e">>

(***************************************************************************)
(* bats_logic.py: clean_bats_duplicates                                    *)
(***************************************************************************)

\* assigned = next((c for c in out.columns if "assigned" in str(c).lower()), None)
AssignedCol(df) == FirstContaining(df.cols, T_assigned)

\* if assigned: out[assigned] = out[assigned].astype(str).str.strip().str.lower()
StandardizeAssigned(df) ==
    IF AssignedCol(df) # None THEN NormalizeCol(df, AssignedCol(df)) ELSE df

\* [c for c in cs if c is not None]
NotNone(cs) == SelectSeq(cs, LAMBDA c : c # None)

\* subset_cols: the exact names when all three are there, else the flexible find
SubsetCols(df) ==
    LET exact == SelectSeq(df.cols, LAMBDA c : c \in {H_Phone, H_AssignedTo, H_Source})
    IN  IF Len(exact) < 3
        THEN NotNone(<< FirstContaining(df.cols, T_phone),
                        AssignedCol(df),
                        FirstContaining(df.cols, T_source) >>)
        ELSE exact

\* drop_duplicates(subset=cs, keep="last"): what DropDuplicates must not be
DropDuplicatesKeepLast(df, cs) ==
    LET Dup(i) == \E j \in (i + 1)..Len(df.rows) :
                      Key(df, df.rows[j], cs) = Key(df, df.rows[i], cs)
        RECURSIVE Keep(_)
        Keep(i) == IF i > Len(df.rows) THEN <<>>
                   ELSE (IF Dup(i) THEN <<>> ELSE <<df.rows[i]>>) \o Keep(i + 1)
    IN  Frame(df.cols, Keep(1))

\* out.drop_duplicates(subset=cs): keep the first row of each key, in order
DropDuplicates(df, cs) ==
    LET Dup(i) == \E j \in 1..(i - 1) : Key(df, df.rows[j], cs) = Key(df, df.rows[i], cs)
        RECURSIVE Keep(_)
        Keep(i) == IF i > Len(df.rows) THEN <<>>
                   ELSE (IF Dup(i) THEN <<>> ELSE <<df.rows[i]>>) \o Keep(i + 1)
    IN  Frame(df.cols, Keep(1))

\* out.groupby(c).size().reset_index(name="Total Leads")
GroupSize(df, c) ==
    LET ks == GroupKeys(df, <<c>>, TRUE)
    IN  Frame(<<c, H_TotalLeads>>,
              [i \in 1..Len(ks) |-> <<ks[i][1], Num(Len(GroupRows(df, <<c>>, ks[i])))>>])

\* clean_bats_duplicates with the assignee standardized after the duplicates
\* are dropped instead of before: what clean_bats_duplicates must not be
clean_bats_duplicates_late(df) ==
    LET cs  == SubsetCols(df)
        out == StandardizeAssigned(IF cs # <<>> THEN DropDuplicates(df, cs) ELSE df)
    IN  [ out           |-> out,
          removed       |-> Len(df.rows) - Len(out.rows),
          leads_summary |-> EmptyFrame ]

\* clean_bats_duplicates with the leads counted before the duplicates are
\* dropped: what clean_bats_duplicates must not be
clean_bats_duplicates_counts_input(df) ==
    LET out0    == StandardizeAssigned(df)
        cs      == SubsetCols(out0)
        out     == IF cs # <<>> THEN DropDuplicates(out0, cs) ELSE out0
        src_col == FirstContaining(out.cols, T_source)
    IN  [ out           |-> out,
          removed       |-> Len(out0.rows) - Len(out.rows),
          leads_summary |-> IF src_col # None THEN GroupSize(out0, src_col)
                            ELSE Frame(<<H_Source, H_TotalLeads>>, <<>>) ]

clean_bats_duplicates(df) ==
    LET out0    == StandardizeAssigned(df)
        before  == Len(out0.rows)
        cs      == SubsetCols(out0)
        out     == IF cs # <<>> THEN DropDuplicates(out0, cs) ELSE out0
        src_col == FirstContaining(out.cols, T_source)
    IN  [ out           |-> out,
          removed       |-> before - Len(out.rows),
          leads_summary |-> IF src_col # None THEN GroupSize(out, src_col)
                            ELSE Frame(<<H_Source, H_TotalLeads>>, <<>>) ]

(***************************************************************************)
(* pandas: merge, concat                                                   *)
(***************************************************************************)

ColSet(df) == {df.cols[i] : i \in 1..Len(df.cols)}

\* pd.merge(L, R, left_on=lon, right_on=ron, how="inner", suffixes=(sl, sr)):
\* a right key named like its left key is dropped; a name left on both sides
\* takes the suffixes; NaN keys match each other; left order is kept.
Merge(L, R, lon, ron, sl, sr) ==
    LET dropR  == {ron[k] : k \in {k \in 1..Len(lon) : lon[k] = ron[k]}}
        rkeep  == SelectSeq(R.cols, LAMBDA c : c \notin dropR)
        both   == ColSet(L) \cap {rkeep[i] : i \in 1..Len(rkeep)}
        lnames == [i \in 1..Len(L.cols) |->
                     IF L.cols[i] \in both THEN L.cols[i] \o sl ELSE L.cols[i]]
        rnames == [i \in 1..Len(rkeep) |->
                     IF rkeep[i] \in both THEN rkeep[i] \o sr ELSE rkeep[i]]
        Hit(l, r) == \A k \in 1..Len(lon) : At(L, l, lon[k]) = At(R, r, ron[k])
        Row(l, r) == l \o [i \in 1..Len(rkeep) |-> At(R, r, rkeep[i])]
        RECURSIVE Right(_, _)
        Right(l, j) == IF j > Len(R.rows) THEN <<>>
                       ELSE (IF Hit(l, R.rows[j]) THEN <<Row(l, R.rows[j])>> ELSE <<>>)
                            \o Right(l, j + 1)
        RECURSIVE Left(_)
        Left(i) == IF i > Len(L.rows) THEN <<>>
                   ELSE Right(L.rows[i], 1) \o Left(i + 1)
    IN  Frame(lnames \o rnames, Left(1))

\* pd.concat([A, B], ignore_index=True): the union of the columns, NaN where
\* a frame lacks one
Concat(A, B) ==
    LET cols == A.cols \o SelectSeq(B.cols, LAMBDA c : c \notin ColSet(A))
        Cell(df, row, c) == IF HasCol(df, c) THEN At(df, row, c) ELSE NaN
        Rows(df) == [i \in 1..Len(df.rows) |->
                       [k \in 1..Len(cols) |-> Cell(df, df.rows[i], cols[k])]]
    IN  Frame(cols, Rows(A) \o Rows(B))

\* df[[c for c in df.columns if c in cs]]
Project(df, cs) ==
    LET keep == SelectSeq(df.cols, LAMBDA c : c \in cs)
    IN  Frame(keep, [i \in 1..Len(df.rows) |->
                       [k \in 1..Len(keep) |-> At(df, df.rows[i], keep[k])]])

\* Series.sum(): the numbers added up, NaN skipped
RECURSIVE SumCells(_)
SumCells(vs) ==
    IF vs = <<>> THEN 0
    ELSE (IF Head(vs).t = "num" THEN Head(vs).n ELSE 0) + SumCells(Tail(vs))

\* df[c] as a sequence of cells
Column(df, c) == [i \in 1..Len(df.rows) |-> At(df, df.rows[i], c)]

(***************************************************************************)
(* sales_logic.py: _find_col, _clean_currency_to_float                     *)
(***************************************************************************)

\* pat.strip("*")
RECURSIVE StripStars(_)
StripStars(s) ==
    IF s # <<>> /\ Head(s) = "*" THEN StripStars(Tail(s))
    ELSE IF s # <<>> /\ s[Len(s)] = "*" THEN StripStars(SubSeq(s, 1, Len(s) - 1))
    ELSE s

\* whether the lowered, stripped column name lc satisfies the pattern:
\* "*x*" is a substring test, anything else an exact match
PatternHit(lc, pat) ==
    IF pat # <<>> /\ Head(pat) = "*" /\ pat[Len(pat)] = "*"
    THEN Contains(lc, StripStars(pat))
    ELSE lc = pat

\* _find_col(df, checks): the first column that satisfies one of the patterns
RECURSIVE FindCol(_, _)
FindCol(cols, checks) ==
    IF cols = <<>> THEN None
    ELSE IF \E pat \in checks : PatternHit(Strip(Lower(Head(cols))), pat) THEN Head(cols)
    ELSE FindCol(Tail(cols), checks)

\* str.replace(r"[^\d.\-]", "", regex=True)
KeepNumeric(s) == SelectSeq(s, LAMBDA c : IsDigit(c) \/ c = "." \/ c = "-")

\* the value of a digit string read as a whole number
RECURSIVE NatVal(_)
NatVal(ds) ==
    IF ds = <<>> THEN 0 ELSE 10 * NatVal(SubSeq(ds, 1, Len(ds) - 1)) + DigitVal(ds[Len(ds)])

\* whether float(s) accepts s, a string of digits, "." and "-": an optional
\* leading minus, then digits with at most one point, at least one digit
FloatAccepts(s) ==
    LET body == IF s # <<>> /\ Head(s) = "-" THEN Tail(s) ELSE s
    IN  /\ \A i \in 1..Len(body) : body[i] # "-"
        /\ Cardinality({i \in 1..Len(body) : body[i] = "."}) <= 1
        /\ \E i \in 1..Len(body) : IsDigit(body[i])

\* float(s) in hundredths, for an s that float accepts (the digits past the
\* second decimal are beyond the resolution of the model)
FloatValue(s) ==
    LET neg  == Head(s) = "-"
        body == IF neg THEN Tail(s) ELSE s
        pad  == IF \E i \in 1..Len(body) : body[i] = "."
                THEN body \o <<"0", "0">>
                ELSE body \o <<".", "0", "0">>
        dot  == CHOOSE i \in 1..Len(pad) : pad[i] = "."
        int  == SubSeq(pad, 1, dot - 1)
        frac == SubSeq(pad, dot + 1, dot + 2)
        v    == 100 * NatVal(int) + NatVal(frac)
    IN  IF neg THEN -v ELSE v

\* _clean_currency_to_float on one cell: NaN for a cell left empty, a number
\* for one float accepts; Bad stands for the ValueError astype(float) raises
Bad == [t |-> "bad", s |-> <<>>, n |-> 0]

CleanCurrency(v) ==
    LET s == KeepNumeric(AsStr(v))
    IN  IF s = <<>> THEN NaN
        ELSE IF FloatAccepts(s) THEN Num(FloatValue(s))
        ELSE Bad

(***************************************************************************)
(* sales_logic.py: process_sales_data                                      *)
(***************************************************************************)

T_orderid == <<"o", "r", "d", "e", "r", " ", "i", "d">>

T_number == <<"n", "u", "m", "b", "e", "r">>

T_customername == <<"c", "u", "s", "t", "o", "m", "e", "r", " ", "n", "a", "m", "e">>

T_deposit == <<"d", "e", "p", "o", "s", "i", "t">>

AgentNames == { <<"a", "g", "e", "n", "t">>, <<"a", "g", "e", "n", "t", "s">>,
                <<"a", "g", "e", "n", "t", " ", "n", "a", "m", "e">> }

NameNames == { <<"n", "a", "m", "e">>, T_customername }

SfxSales == <<"_", "s", "a", "l", "e", "s">>

SfxBats == <<"_", "b", "a", "t", "s">>

H_OrderID == <<"O", "r", "d", "e", "r", " ", "I", "D">>

H_Name == <<"N", "a", "m", "e">>

H_Agent == <<"A", "g", "e", "n", "t">>

H_Deposit == <<"D", "e", "p", "o", "s", "i", "t">>

H_Deposits == <<"D", "e", "p", "o", "s", "i", "t", "s">>

H_TotalUniqueSales_ == <<"T", "o", "t", "a", "l", "_", "U", "n", "i", "q", "u", "e", "_",
                         "S", "a", "l", "e", "s">>

\* df.columns = [str(c).strip() for c in df.columns]
StripCols(df) == Frame([i \in 1..Len(df.cols) |-> Strip(df.cols[i])], df.rows)

\* Column detection, on the stripped column names
DetectCols(sales_df, bats_df) ==
    LET S == StripCols(sales_df).cols
        B == StripCols(bats_df).cols
    IN  [ sales_agent    |-> FindCol(S, AgentNames),
          bats_assigned  |-> FirstContaining(B, T_assigned),
          order_id_sales |-> FirstContaining(S, T_orderid),
          order_id_bats  |-> FirstContaining(B, T_number),
          name_sales     |-> FindCol(S, NameNames),
          name_bats      |-> FirstContaining(B, T_customername),
          deposit_sales  |-> FirstContaining(S, T_deposit),
          source_bats    |-> FirstContaining(B, T_source) ]

\* a validation that raises at the first unresolved role: what MissingRoles
\* must not be
MissingRolesFirstOnly(c) ==
    IF c.sales_agent = None THEN <<"Sales: Agent/Agents">>
    ELSE IF c.bats_assigned = None THEN <<"BATS: Assigned To">>
    ELSE IF c.deposit_sales = None THEN <<"Sales: Deposit">>
    ELSE IF c.source_bats = None THEN <<"BATS: Source">>
    ELSE IF c.name_sales = None \/ c.name_bats = None
    THEN <<"Name (Sales 'Name' and BATS 'Customer Name')">>
    ELSE <<>>

\* Validate critical columns: the list the ValueError names
MissingRoles(c) ==
       (IF c.sales_agent = None   THEN <<"Sales: Agent/Agents">> ELSE <<>>)
    \o (IF c.bats_assigned = None THEN <<"BATS: Assigned To">> ELSE <<>>)
    \o (IF c.deposit_sales = None THEN <<"Sales: Deposit">> ELSE <<>>)
    \o (IF c.source_bats = None   THEN <<"BATS: Source">> ELSE <<>>)
    \o (IF c.name_sales = None \/ c.name_bats = None
        THEN <<"Name (Sales 'Name' and BATS 'Customer Name')">> ELSE <<>>)

\* Standardize text fields, sales side
StandardizeSales(sales_df, c) ==
    NormalizeCol(NormalizeCol(StripCols(sales_df), c.sales_agent), c.name_sales)

\* Standardize text fields, leads side
StandardizeBats(bats_df, c) ==
    NormalizeCol(NormalizeCol(StripCols(bats_df), c.bats_assigned), c.name_bats)

\* sales_df[deposit] = _clean_currency_to_float(sales_df[deposit])
CleanDeposits(df, c) ==
    LET k == ColIdx(df, c.deposit_sales)
    IN  Frame(df.cols, [i \in 1..Len(df.rows) |->
                          [df.rows[i] EXCEPT ![k] = CleanCurrency(df.rows[i][k])]])

\* whether astype(float) raised on some cell
DepositError(df, c) ==
    \E i \in 1..Len(df.rows) : At(df, df.rows[i], c.deposit_sales).t = "bad"

\* the mask deposit.notna() alone: what PositiveDeposit must not be
ParsedDeposit(v) == v.t = "num"

\* the mask deposit.notna() & (deposit > 0) on one cleaned cell
PositiveDeposit(v) == v.t = "num" /\ v.n > 0

\* sales_df[sales_df[deposit].notna() & (sales_df[deposit] > 0)]
FilterDeposits(df, c) ==
    Frame(df.cols,
          SelectSeq(df.rows, LAMBDA row : PositiveDeposit(At(df, row, c.deposit_sales))))

\* groupby([order_id, agent, name], as_index=False).agg({deposit: "sum"}),
\* when the sales table has an order id column
AggregateByOrder(df, c) ==
    IF c.order_id_sales = None THEN df
    ELSE LET by == <<c.order_id_sales, c.sales_agent, c.name_sales>>
             ks == GroupKeys(df, by, TRUE)
             G(k) == Frame(df.cols, GroupRows(df, by, k))
         IN  Frame(by \o <<c.deposit_sales>>,
                   [i \in 1..Len(ks) |->
                       ks[i] \o <<Num(SumCells(Column(G(ks[i]), c.deposit_sales)))>>])

\* sales_min: the sales rows that go into the joins
SalesMin(sales_df, c) ==
    Project(AggregateByOrder(FilterDeposits(CleanDeposits(StandardizeSales(sales_df, c), c), c), c),
            {c.order_id_sales, c.name_sales, c.sales_agent, c.deposit_sales})

\* bats_min: the lead columns that go into the joins
BatsMin(bats_df, c) ==
    Project(StandardizeBats(bats_df, c),
            {c.order_id_bats, c.name_bats, c.bats_assigned, c.source_bats})

\* First pass: Order ID + Agent
FirstPass(sales_min, bats_min, c) ==
    IF c.order_id_sales # None /\ c.order_id_bats # None
    THEN Merge(sales_min, bats_min,
               <<c.order_id_sales, c.sales_agent>>, <<c.order_id_bats, c.bats_assigned>>,
               SfxSales, SfxBats)
    ELSE EmptyFrame

\* DataFrame.empty
IsEmpty(df) == Len(df.rows) = 0 \/ Len(df.cols) = 0

\* a second pass over every sales row: what UnmatchedSales must not be
UnmatchedSalesAll(sales_min, first_pass, c) == sales_min

\* the sales rows left for the second pass: those whose order id is not the
\* order id of a first-pass match
UnmatchedSales(sales_min, first_pass, c) ==
    IF ~IsEmpty(first_pass) /\ HasCol(first_pass, c.order_id_sales)
    THEN LET ids == Column(first_pass, c.order_id_sales)
             matched_ids == {AsStr(ids[i]) : i \in {i \in 1..Len(ids) : NotNa(ids[i])}}
         IN  Frame(sales_min.cols,
                   SelectSeq(sales_min.rows,
                             LAMBDA row : AsStr(At(sales_min, row, c.order_id_sales))
                                              \notin matched_ids))
    ELSE sales_min

\* Second pass: Name + Agent (only unmatched)
SecondPass(unmatched_sales, bats_min, c) ==
    Merge(unmatched_sales, bats_min,
          <<c.name_sales, c.sales_agent>>, <<c.name_bats, c.bats_assigned>>,
          SfxSales, SfxBats)

\* Combine all matches
Combined(sales_df, bats_df, c) ==
    LET sales_min  == SalesMin(sales_df, c)
        bats_min   == BatsMin(bats_df, c)
        first_pass == FirstPass(sales_min, bats_min, c)
    IN  Concat(first_pass,
               SecondPass(UnmatchedSales(sales_min, first_pass, c), bats_min, c))

\* Only keep matched leads: combined[combined[source].notna()]
KeepMatched(combined, c) ==
    Frame(combined.cols,
          SelectSeq(combined.rows, LAMBDA row : NotNa(At(combined, row, c.source_bats))))

\* combined.get(col): the column, or None for every row when there is none
GetCell(df, row, col) == IF HasCol(df, col) THEN At(df, row, col) ELSE NaN

\* Final matched sales table, before grouping
OutRows(combined, c) ==
    Frame(<<H_OrderID, H_Name, H_Agent, H_Deposit, H_Source>>,
          [i \in 1..Len(combined.rows) |->
              << GetCell(combined, combined.rows[i], c.order_id_sales),
                 At(combined, combined.rows[i], c.name_sales),
                 At(combined, combined.rows[i], c.sales_agent),
                 At(combined, combined.rows[i], c.deposit_sales),
                 At(combined, combined.rows[i], c.source_bats) >>])

\* ", ".join(sorted(set(str(v) for v in x if pd.notna(v))))
JoinOrderIds(vs) ==
    LET ids    == {<<Str(AsStr(vs[i]))>> : i \in {i \in 1..Len(vs) : NotNa(vs[i])}}
        sorted == SortKeys(ids)
    IN  Str(Join(<<",", " ">>, [i \in 1..Len(sorted) |-> sorted[i][1].s]))

\* Unique sale calculation: per (Source, Name, Agent)
GroupSales(out) ==
    LET by == <<H_Source, H_Name, H_Agent>>
        ks == GroupKeys(out, by, TRUE)
        G(k) == Frame(out.cols, GroupRows(out, by, k))
    IN  Frame(by \o <<H_Deposit, H_OrderID>>,
              [i \in 1..Len(ks) |->
                  ks[i] \o << Num(SumCells(Column(G(ks[i]), H_Deposit))),
                              JoinOrderIds(Column(G(ks[i]), H_OrderID)) >>])

\* Series.count(): the cells that are not NaN
CountNotNa(vs) == Cardinality({i \in 1..Len(vs) : NotNa(vs[i])})

\* out.groupby("Source").agg(Deposits=sum, Total_Unique_Sales=count of Name),
\* sorted by Source
SalesSummary(out) ==
    LET ks == GroupKeys(out, <<H_Source>>, TRUE)
        G(k) == Frame(out.cols, GroupRows(out, <<H_Source>>, k))
    IN  Frame(<<H_Source, H_Deposits, H_TotalUniqueSales_>>,
              [i \in 1..Len(ks) |->
                  << ks[i][1],
                     Num(SumCells(Column(G(ks[i]), H_Deposit))),
                     Num(CountNotNa(Column(G(ks[i]), H_Name))) >>])

\* the columns the code reads with combined[...] once there are matches
NeededCols(c) == {c.name_sales, c.sales_agent, c.deposit_sales, c.source_bats}

\* process_sales_data(sales_df, bats_df): kind is "ok" for a return, and
\* otherwise names what was raised
process_sales_data(sales_df, bats_df) ==
    LET c == DetectCols(sales_df, bats_df)
    IN  IF MissingRoles(c) # <<>>
        THEN [kind |-> "missing columns", missing |-> MissingRoles(c)]
        ELSE IF DepositError(CleanDeposits(StandardizeSales(sales_df, c), c), c)
        THEN [kind |-> "bad deposit"]
        ELSE LET all == Combined(sales_df, bats_df, c)
             IN  IF ~HasCol(all, c.source_bats)
                 THEN [kind |-> "key error"]
                 ELSE IF IsEmpty(KeepMatched(all, c))
                 THEN [ kind    |-> "ok",
                        out     |-> Frame(<<H_OrderID, H_Name, H_Agent, H_Deposit, H_Source>>, <<>>),
                        summary |-> Frame(<<H_Source, H_Deposits, H_TotalUniqueSales_>>, <<>>) ]
                 ELSE IF ~(NeededCols(c) \subseteq ColSet(all))
                 THEN [kind |-> "key error"]
                 ELSE LET out == GroupSales(OutRows(KeepMatched(all, c), c))
                      IN  [kind |-> "ok", out |-> out, summary |-> SalesSummary(out)]

(***************************************************************************)
(* The lead tables the deduplicator is run on                              *)
(***************************************************************************)

MaxLeadRows == 3

H_Number == <<"N", "u", "m", "b", "e", "r">>

H_CustomerName == <<"C", "u", "s", "t", "o", "m", "e", "r", " ", "N", "a", "m", "e">>

H_AssignedBy == <<"A", "s", "s", "i", "g", "n", "e", "d", " ", "B", "y">>

FB == Str(<<"F", "B">>)

GG == Str(<<"G", "G">>)

SeqsUpTo(S, n) == UNION {[1..m -> S] : m \in 0..n}

\* (phone, assignee, source) of a lead
LeadKeyRows ==
    { << Str(<<"1">>), Str(<<"x">>),      FB  >>,
      << Str(<<"1">>), Str(<<" ", "X">>), FB  >>,
      << Str(<<"2">>), Str(<<"x">>),      GG  >>,
      << Str(<<"1">>), Str(<<"x">>),      NaN >>,
      << NaN,          NaN,               FB  >> }

DedupLayouts == {"exact", "flexible", "nosource", "nokey", "twoassigned"}

\* the header row of each layout
LayoutCols(l) ==
    CASE l = "exact"       -> << H_Phone, H_AssignedTo, H_Source, H_Number >>
      [] l = "flexible"    -> << H_Number, <<"p", "h", "o", "n", "e">>,
                                 <<"L", "e", "a", "d", " ", "S", "o", "u", "r", "c", "e">>,
                                 <<"a", "s", "s", "i", "g", "n", "e", "d", " ", "t", "o">> >>
      [] l = "nosource"    -> << H_Phone, H_AssignedTo, H_Number >>
      [] l = "nokey"       -> << H_CustomerName >>
      [] l = "twoassigned" -> << H_AssignedBy, H_Phone, H_AssignedTo, H_Source >>

\* row i of a table in layout l, for the lead k: Number is the row's serial
LayoutRow(l, k, i) ==
    CASE l = "exact"       -> << k[1], k[2], k[3], Str(NatStr(i)) >>
      [] l = "flexible"    -> << Str(NatStr(i)), k[1], k[3], k[2] >>
      [] l = "nosource"    -> << k[1], k[2], Str(NatStr(i)) >>
      [] l = "nokey"       -> << k[2] >>
      [] l = "twoassigned" -> << Str(<<"a">>), k[1], k[2], k[3] >>

LeadTable(l, ks) ==
    Frame(LayoutCols(l), [i \in 1..Len(ks) |-> LayoutRow(l, ks[i], i)])

DedupInputs == {LeadTable(l, ks) : l \in DedupLayouts, ks \in SeqsUpTo(LeadKeyRows, MaxLeadRows)}

(***************************************************************************)
(* The deduplicator called on a lead table, then on its own output         *)
(***************************************************************************)

InitDedup ==
    /\ pc = "start"
    /\ leads \in DedupInputs
    /\ sales = EmptyFrame
    /\ cmpleads = EmptyFrame
    /\ dedup = None
    /\ redup = None
    /\ match = None
    /\ report = None

Deduplicate ==
    /\ pc = "start"
    /\ dedup' = clean_bats_duplicates(leads)
    /\ pc' = "deduped"
    /\ UNCHANGED <<leads, sales, redup, match, cmpleads, report>>

DeduplicateAgain ==
    /\ pc = "deduped"
    /\ redup' = clean_bats_duplicates(dedup.out)
    /\ pc' = "rededuped"
    /\ UNCHANGED <<leads, sales, dedup, match, cmpleads, report>>

NextDedup == Deduplicate \/ DeduplicateAgain

SpecDedup == InitDedup /\ [][NextDedup]_vars

(***************************************************************************)
(* The sales and lead tables the matcher is run on                         *)
(***************************************************************************)

MaxSalesRows == 2

MaxMatchLeads == 2

O1 == Str(<<"O", "1">>)

O2 == Str(<<"O", "2">>)

O9 == Str(<<"O", "9">>)

\* (order id, customer name, agent, deposit) of a sales row
SalesRowsU ==
    << << O1,  Str(<<"a", "l">>),      Str(<<"x">>),      Str(<<"$", "1", "0", "0">>) >>,
       << O2,  Str(<<"A", "l", " ">>), Str(<<" ", "X">>), Str(<<"5", ".", "5", "0">>) >>,
       << O1,  Str(<<"b", "o">>),      Str(<<"x">>),      Str(<<"-", "$", "5">>) >>,
       << NaN, Str(<<"b", "o">>),      Str(<<"x">>),      Str(<<"$", "7">>) >>,
       << O2,  Str(<<"b", "o">>),      Str(<<"x">>),      Str(<<"1", ".", "2", ".", "3">>) >>,
       << O1,  Str(<<"b", "o">>),      Str(<<"x">>),      Str(<<"n", "/", "a">>) >>,
       << O1,  Str(<<"b", "o">>),      Str(<<"x">>),      Str(<<"$", "2", "0">>) >> >>

\* (order number, customer name, assignee, source) of a lead
MatchLeadRowsU ==
    << << O1, Str(<<"b", "o">>), Str(<<"x">>),      FB  >>,
       << O9, Str(<<"a", "l">>), Str(<<"X", " ">>), GG  >>,
       << O2, Str(<<"b", "o">>), Str(<<"x">>),      NaN >>,
       << O1, Str(<<"a", "l">>), Str(<<"x">>),      FB  >> >>

\* the tables of at most n rows drawn from the rows U, repeats allowed, the
\* rows listed in the order of U
TablesUpTo(U, n) ==
    UNION { { [i \in 1..m |-> U[f[i]]] :
                f \in {g \in [1..m -> 1..Len(U)] :
                          \A i \in 1..(m - 1) : g[i] <= g[i + 1]} } : m \in 0..n }

H_Agents == <<"A", "g", "e", "n", "t", "s">>

H_DepositPadded == <<" ", "D", "e", "p", "o", "s", "i", "t", " ">>

\* the sales header rows: the usual one, one without an order id, one that
\* names the customer column as the lead table does, and those that lack a
\* required column
SalesLayoutCols(l) ==
    CASE l = "std"       -> << H_OrderID, H_Name, H_Agent, H_Deposit >>
      [] l = "noid"      -> << H_Name, H_Agent, H_Deposit >>
      [] l = "cname"     -> << H_OrderID, H_CustomerName, H_Agents, H_DepositPadded >>
      [] l = "noagent"   -> << H_OrderID, H_Name, H_Deposit >>
      [] l = "nodeposit" -> << H_OrderID, H_Name, H_Agent >>
      [] l = "noname"    -> << H_OrderID, H_Agent, H_Deposit >>
      [] l = "idonly"    -> << H_OrderID >>

SalesLayoutRow(l, r) ==
    CASE l = "std"       -> << r[1], r[2], r[3], r[4] >>
      [] l = "noid"      -> << r[2], r[3], r[4] >>
      [] l = "cname"     -> << r[1], r[2], r[3], r[4] >>
      [] l = "noagent"   -> << r[1], r[2], r[4] >>
      [] l = "nodeposit" -> << r[1], r[2], r[3] >>
      [] l = "noname"    -> << r[1], r[3], r[4] >>
      [] l = "idonly"    -> << r[1] >>

SalesTable(l, rs) ==
    Frame(SalesLayoutCols(l), [i \in 1..Len(rs) |-> SalesLayoutRow(l, rs[i])])

\* the lead header rows: the usual one, one without an order number, and
\* those that lack a required column
MatchLeadLayoutCols(l) ==
    CASE l = "std"        -> << H_Number, H_CustomerName, H_AssignedTo, H_Source >>
      [] l = "nonumber"   -> << H_CustomerName, H_AssignedTo, H_Source >>
      [] l = "nosource"   -> << H_Number, H_CustomerName, H_AssignedTo >>
      [] l = "noassigned" -> << H_Number, H_CustomerName, H_Source >>
      [] l = "nocustomer" -> << H_Number, H_AssignedTo, H_Source >>
      [] l = "numberonly" -> << H_Number >>

MatchLeadLayoutRow(l, r) ==
    CASE l = "std"        -> << r[1], r[2], r[3], r[4] >>
      [] l = "nonumber"   -> << r[2], r[3], r[4] >>
      [] l = "nosource"   -> << r[1], r[2], r[3] >>
      [] l = "noassigned" -> << r[1], r[2], r[4] >>
      [] l = "nocustomer" -> << r[1], r[3], r[4] >>
      [] l = "numberonly" -> << r[1] >>

MatchLeadTable(l, rs) ==
    Frame(MatchLeadLayoutCols(l), [i \in 1..Len(rs) |-> MatchLeadLayoutRow(l, rs[i])])

\* tables with every required column, in each pairing of their layouts
MatchInputsFull ==
    { <<SalesTable(ls, ss), MatchLeadTable(ll, bs)>> :
        ls \in {"std", "noid", "cname"}, ll \in {"std", "nonumber"},
        ss \in TablesUpTo(SalesRowsU, MaxSalesRows),
        bs \in TablesUpTo(MatchLeadRowsU, MaxMatchLeads) }

\* one sale (its deposit well-formed, or malformed) and one lead, under every
\* pairing of header rows
MatchInputsHeaders ==
    { <<SalesTable(ls, <<SalesRowsU[k]>>), MatchLeadTable(ll, <<MatchLeadRowsU[4]>>)>> :
        k \in {1, 5},
        ls \in {"std", "noid", "cname", "noagent", "nodeposit", "noname", "idonly"},
        ll \in {"std", "nonumber", "nosource", "noassigned", "nocustomer", "numberonly"} }

MatchInputs == MatchInputsFull \cup MatchInputsHeaders

(***************************************************************************)
(* The matcher called on a sales table and a lead table                    *)
(***************************************************************************)

InitMatch ==
    /\ pc = "start"
    /\ \E in \in MatchInputs : sales = in[1] /\ leads = in[2]
    /\ cmpleads = EmptyFrame
    /\ dedup = None
    /\ redup = None
    /\ match = None
    /\ report = None

\* the call of process_sales_data: it returns, or it raises
Match ==
    /\ pc = "start"
    /\ match' = process_sales_data(sales, leads)
    /\ pc' = IF match'.kind = "ok" THEN "matched" ELSE "raised"
    /\ UNCHANGED <<leads, sales, dedup, redup, cmpleads, report>>

NextMatch == Match

SpecMatch == InitMatch /\ [][NextMatch]_vars

(***************************************************************************)
(* compare.py: the per-source report                                       *)
(***************************************************************************)

H_TotalUniqueSales == <<"T", "o", "t", "a", "l", " ", "U", "n", "i", "q", "u", "e", " ", "S", "a", "l", "e", "s">>

H_LeadCost == <<"L", "e", "a", "d", " ", "C", "o", "s", "t">>

H_TotalLeadsCost == <<"T", "o", "t", "a", "l", " ", "L", "e", "a", "d", "s", " ", "C", "o", "s", "t">>

\* the cost table, source -> cost of one lead in thousandths (2.5 and 0.125:
\* multiples of 1/8, which floats hold exactly)
lead_costs == (FB.s :> 2500) @@ (GG.s :> 125)

\* fillna(1.00), in thousandths
DefaultLeadCost == 1000

\* n / d rounded to the nearest integer, a tie to the even one (n >= 0)
RoundHalfEven(n, d) ==
    LET q == n \div d
        r == n % d
    IN  IF 2 * r < d THEN q
        ELSE IF 2 * r > d THEN q + 1
        ELSE IF q % 2 = 0 THEN q ELSE q + 1

\* summary[src_bats].map(lead_costs).fillna(1.00) on one cell
LeadCost(src) ==
    IF src.t = "str" /\ src.s \in DOMAIN lead_costs THEN lead_costs[src.s]
    ELSE DefaultLeadCost

\* a total rounded with ties upwards: what TotalLeadsCost must not be
TotalLeadsCostHalfUp(total_leads, cost) ==
    LET n == total_leads * cost
    IN  IF 2 * (n % 10) < 10 THEN n \div 10 ELSE (n \div 10) + 1

\* (Total Leads * Lead Cost).round(2), in hundredths
TotalLeadsCost(total_leads, cost) == RoundHalfEven(total_leads * cost, 10)

\* f"{n:,}" of a natural number
RECURSIVE Commas(_)
Commas(n) ==
    IF n < 1000 THEN NatStr(n)
    ELSE Commas(n \div 1000) \o <<",">>
         \o NatStr((n % 1000) \div 100) \o NatStr((n % 100) \div 10) \o NatStr(n % 10)

\* f"${x:,.0f}" of an amount held in hundredths
FormatDeposits(n) ==
    <<"$">> \o (IF n < 0 THEN <<"-">> ELSE <<>>)
            \o Commas(RoundHalfEven(IF n < 0 THEN -n ELSE n, 100))

\* the matched sales as compare reads them: a Source column of NA and a
\* Deposit column of 0.0 are added when there is none
ReportSales(matched_sales_df) ==
    LET s0 == StripCols(matched_sales_df)
        s1 == IF FirstContaining(s0.cols, T_source) = None
              THEN Frame(s0.cols \o <<H_Source>>,
                         [i \in 1..Len(s0.rows) |-> s0.rows[i] \o <<NaN>>])
              ELSE s0
    IN  IF HasCol(s1, H_Deposit) THEN s1
        ELSE Frame(s1.cols \o <<H_Deposit>>,
                   [i \in 1..Len(s1.rows) |-> s1.rows[i] \o <<Num(0)>>])

\* sales.groupby(src_sales, dropna=False)["Deposit"].sum(): source -> sum
DepositsBySource(sales_f, src_sales) ==
    LET ks == GroupKeys(sales_f, <<src_sales>>, FALSE)
    IN  Frame(<<src_sales, H_Deposits>>,
              [i \in 1..Len(ks) |->
                  << ks[i][1],
                     Num(SumCells(Column(Frame(sales_f.cols,
                                               GroupRows(sales_f, <<src_sales>>, ks[i])),
                                         H_Deposit))) >>])

\* df.groupby(src)[c].nunique(): source -> number of distinct non-NaN values
NUnique(df, src, c) ==
    LET ks == GroupKeys(df, <<src>>, TRUE)
        vals(k) == { v \in { At(df, df.rows[i], c) :
                               i \in { i \in 1..Len(df.rows) : At(df, df.rows[i], src) = k[1] } } :
                       NotNa(v) }
    IN  Frame(<<src, H_TotalUniqueSales>>,
              [i \in 1..Len(ks) |-> << ks[i][1], Num(Cardinality(vals(ks[i]))) >>])

H_key == <<"k", "e", "y">>

\* the unique sales count per source: the distinct Order ID values when the
\* column holds any, else the distinct Name||Agent keys, else 0
UniqueSales(sales_f, src_sales) ==
    IF /\ HasCol(sales_f, H_OrderID)
       /\ \E i \in 1..Len(sales_f.rows) : NotNa(At(sales_f, sales_f.rows[i], H_OrderID))
    THEN NUnique(Frame(sales_f.cols,
                       SelectSeq(sales_f.rows,
                                 LAMBDA row : NotNa(At(sales_f, row, H_OrderID)))),
                 src_sales, H_OrderID)
    ELSE IF HasCol(sales_f, H_Name) /\ HasCol(sales_f, H_Agent)
    THEN NUnique(Frame(sales_f.cols \o <<H_key>>,
                       [i \in 1..Len(sales_f.rows) |->
                           sales_f.rows[i]
                           \o << Str(AsStr(At(sales_f, sales_f.rows[i], H_Name))
                                     \o <<"|", "|">>
                                     \o AsStr(At(sales_f, sales_f.rows[i], H_Agent))) >>]),
                 src_sales, H_key)
    ELSE LET d == DepositsBySource(sales_f, src_sales)
         IN  Frame(<<src_sales, H_TotalUniqueSales>>,
                   [i \in 1..Len(d.rows) |-> << d.rows[i][1], Num(0) >>])

\* the value a left merge on the source brings from a table keyed by it (its
\* keys are distinct), NaN when no key matches
Lookup(R, key, c) ==
    IF \E j \in 1..Len(R.rows) : R.rows[j][1] = key
    THEN At(R, R.rows[CHOOSE j \in 1..Len(R.rows) : R.rows[j][1] = key], c)
    ELSE NaN

\* fillna(v)
FillNa(cell, v) == IF NotNa(cell) THEN cell ELSE v

\* sort_values("Source", na_position="last") of rows whose first cell is the
\* source
RECURSIVE SortBySource(_)
SortBySource(rows) ==
    IF rows = <<>> THEN <<>>
    ELSE LET m == CHOOSE i \in 1..Len(rows) :
                     /\ \A j \in 1..Len(rows) : ~CellLess(rows[j][1], rows[i][1])
                     /\ \A j \in 1..(i - 1) : CellLess(rows[i][1], rows[j][1])
         IN  <<rows[m]>>
             \o SortBySource([k \in 1..(Len(rows) - 1) |->
                                 IF k < m THEN rows[k] ELSE rows[k + 1]])

\* compare_bats_sales(bats_df, matched_sales_df): kind is "ok" for a return
compare_bats_sales(bats_df, matched_sales_df) ==
    LET bats     == StripCols(bats_df)
        src_bats == FirstContaining(bats.cols, T_source)
    IN  IF src_bats = None THEN [kind |-> "no source"]
        ELSE
        LET sales_f   == ReportSales(matched_sales_df)
            src_sales == FirstContaining(sales_f.cols, T_source)
            leads_summary == GroupSize(bats, src_bats)
            deposits  == DepositsBySource(sales_f, src_sales)
            uniq      == UniqueSales(sales_f, src_sales)
            Row(l) ==
                LET cost == LeadCost(l[1])
                IN  << l[1],
                       l[2],
                       Str(FormatDeposits(FillNa(Lookup(deposits, l[1], H_Deposits), Num(0)).n)),
                       FillNa(Lookup(uniq, l[1], H_TotalUniqueSales), Num(0)),
                       Num(cost),
                       Num(TotalLeadsCost(l[2].n, cost)) >>
        IN  [ kind |-> "ok",
              out  |-> Frame(<<H_Source, H_TotalLeads, H_Deposits, H_TotalUniqueSales,
                               H_LeadCost, H_TotalLeadsCost>>,
                             SortBySource([i \in 1..Len(leads_summary.rows) |->
                                              Row(leads_summary.rows[i])])) ]

(***************************************************************************)
(* app.py: the tables the application hands to the matcher and the report  *)
(***************************************************************************)

\* the width past which load_full_file cuts a cell
PreviewWidth == 25

\* load_full_file on the table read from a file: every cell becomes its
\* string (NaN the string "nan"), cut to PreviewWidth characters and "..."
load_full_file(df) ==
    Frame(df.cols,
          [i \in 1..Len(df.rows) |->
              [k \in 1..Len(df.rows[i]) |->
                  LET x == AsStr(df.rows[i][k])
                  IN  Str(IF Len(x) > PreviewWidth
                          THEN SubSeq(x, 1, PreviewWidth) \o <<".", ".", ".">>
                          ELSE x)]])

\* the sales and lead tables with every required column: as they are read,
\* and with the lead table as the application loads it from its file
ReportInputs ==
    LET raw == { <<SalesTable(ls, ss), MatchLeadTable(ll, bs)>> :
                   ls \in {"std", "noid"}, ll \in {"std", "nonumber"},
                   ss \in TablesUpTo(SalesRowsU, MaxSalesRows),
                   bs \in TablesUpTo(MatchLeadRowsU, MaxMatchLeads) }
    IN  raw \cup { <<in[1], load_full_file(in[2])>> : in \in raw }

InitReport ==
    /\ pc = "start"
    /\ \E in \in ReportInputs : sales = in[1] /\ leads = in[2]
    /\ cmpleads = EmptyFrame
    /\ dedup = None
    /\ redup = None
    /\ match = None
    /\ report = None

\* the lead tables compare_bats_sales may be given with the matched sales:
\* the table they were matched against, or that table short of its first row
CompareLeadTables(l) ==
    {l} \cup (IF l.rows = <<>> THEN {} ELSE {Frame(l.cols, Tail(l.rows))})

\* the call of compare_bats_sales on the matched sales
Compare ==
    /\ pc = "matched"
    /\ \E b \in CompareLeadTables(leads) :
          /\ cmpleads' = b
          /\ report' = compare_bats_sales(b, match.out)
    /\ pc' = "reported"
    /\ UNCHANGED <<leads, sales, dedup, redup, match>>

NextReport == Match \/ Compare

SpecReport == InitReport /\ [][NextReport]_vars

(***************************************************************************)
(* app.py: the handlers of the window                                      *)
(*                                                                         *)
(* leads is the global bats_df and sales the global sales_raw_df (a table  *)
(* without columns while they are None); match is the last matched-sales   *)
(* result, report the comparison table on display and cmpleads the lead    *)
(* table it was computed from; dedup is what the last Start Process got    *)
(* from clean_bats_duplicates.  load_full_file runs in its own thread;     *)
(* what it does to the globals is taken as one step, at the end of the     *)
(* load.                                                                   *)
(***************************************************************************)

MaxAppLeads == 2

\* (phone, order number, customer name, assignee, source) of the leads in a
\* BATS file: the second is the first again, its assignee typed otherwise
AppLeadRowsU ==
    << << Str(<<"1">>), O1, Str(<<"a", "l">>), Str(<<"x">>),      FB >>,
       << Str(<<"1">>), O1, Str(<<"a", "l">>), Str(<<" ", "X">>), FB >>,
       << Str(<<"2">>), O9, Str(<<"b", "o">>), Str(<<"x">>),      GG >> >>

\* the BATS files the user may upload
AppLeadFiles ==
    { Frame(<<H_Phone, H_Number, H_CustomerName, H_AssignedTo, H_Source>>, rs) :
        rs \in TablesUpTo(AppLeadRowsU, MaxAppLeads) }

\* the sales files the user may upload, or paste: no sale, a sale, a sale
\* without an order id, a sale whose deposit is malformed
AppSalesFiles ==
    { SalesTable("std", rs) :
        rs \in {<<>>, <<SalesRowsU[1]>>, <<SalesRowsU[4]>>, <<SalesRowsU[5]>>} }

\* a global that holds a table, not None: a file has columns
Loaded(df) == df.cols # <<>>

\* no result yet
NoResult == [kind |-> "none"]

InitApp ==
    /\ pc = "idle"
    /\ leads = EmptyFrame
    /\ sales = EmptyFrame
    /\ match = NoResult
    /\ report = NoResult
    /\ cmpleads = EmptyFrame
    /\ dedup = None
    /\ redup = None

\* process_sales_data and compare_bats_sales inside a try: the matched sales,
\* the comparison on display and the leads it was computed from, each left
\* as it is once a call has raised
RunSales(sales_raw_df, bats_df) ==
    \E m \in {process_sales_data(sales_raw_df, bats_df)} :
       IF m.kind # "ok" THEN UNCHANGED <<match, report, cmpleads>>
       ELSE /\ match' = m
            /\ \E r \in {compare_bats_sales(bats_df, m.out)} :
                  IF r.kind # "ok" THEN UNCHANGED <<report, cmpleads>>
                  ELSE report' = r /\ cmpleads' = bats_df

\* open_file("Bats"), when load_full_file has read the file
UploadBats ==
    /\ \E f \in AppLeadFiles : leads' = load_full_file(f)
    /\ UNCHANGED <<pc, sales, match, report, cmpleads, dedup, redup>>

\* open_file("Sales"), when load_full_file has read the file
UploadSales ==
    /\ \E f \in AppSalesFiles : \E df_full \in {load_full_file(f)} :
          /\ sales' = df_full
          /\ IF Loaded(leads) THEN RunSales(df_full, leads)
             ELSE UNCHANGED <<match, report, cmpleads>>
    /\ UNCHANGED <<pc, leads, dedup, redup>>

\* paste_sales_data
PasteSales ==
    /\ \E df \in AppSalesFiles :
          /\ sales' = df
          /\ IF Loaded(leads) THEN RunSales(df, leads)
             ELSE UNCHANGED <<match, report, cmpleads>>
    /\ UNCHANGED <<pc, leads, dedup, redup>>

\* start_process
StartProcess ==
    /\ Loaded(leads)
    /\ \E d \in {clean_bats_duplicates(leads)} :
          /\ dedup' = d
          /\ leads' = d.out
          /\ IF Loaded(sales) THEN RunSales(sales, d.out)
             ELSE UNCHANGED <<match, report, cmpleads>>
    /\ UNCHANGED <<pc, sales, redup>>

NextApp == UploadBats \/ UploadSales \/ PasteSales \/ StartProcess

SpecApp == InitApp /\ [][NextApp]_vars

(***************************************************************************)
(* Claims about the deduplicator                                           *)
(***************************************************************************)

\* the columns whose name contains "assigned"
AssignedCols(df) == SelectSeq(df.cols, LAMBDA c : Contains(Lower(c), T_assigned))

\* Two rows share (phone, normalized assignee, source): the phone and source
\* columns agree, and so does, once normalized, every column that can be
\* taken for the assignee.
SameTriple(df, r1, r2) ==
    LET ph == FirstContaining(df.cols, T_phone)
        sr == FirstContaining(df.cols, T_source)
        as == AssignedCols(df)
    IN  /\ At(df, r1, ph) = At(df, r2, ph)
        /\ At(df, r1, sr) = At(df, r2, sr)
        /\ \A k \in 1..Len(as) :
               NormText(At(df, r1, as[k])) = NormText(At(df, r2, as[k]))

HasTriple(df) ==
    /\ FirstContaining(df.cols, T_phone) # None
    /\ FirstContaining(df.cols, T_source) # None
    /\ AssignedCols(df) # <<>>

\* C1: for every input lead table, the cleaned table returned by
\* clean_bats_duplicates holds no two rows that share the same
\* (phone, normalized assignee, source) triple.
C1_NoSharedTriple ==
    (pc # "start" /\ HasTriple(dedup.out)) =>
        \A i, j \in 1..Len(dedup.out.rows) :
            i < j => ~SameTriple(dedup.out, dedup.out.rows[i], dedup.out.rows[j])

\* C2: deduplication is idempotent: clean_bats_duplicates on the cleaned table
\* it returned reports removed = 0 and returns the same rows.
C2_Idempotent ==
    pc = "rededuped" => (redup.removed = 0 /\ redup.out = dedup.out)

\* C2's case: a second call on a table from which the first call removed rows
C2_Witness ==
    pc = "rededuped" /\ dedup.removed > 0 /\ Len(dedup.out.rows) >= 2

\* the m-th smallest element of a set of row numbers
Nth(K, m) == CHOOSE i \in K : Cardinality({j \in K : j <= i}) = m

\* the row numbers of the standardized input that hold the first occurrence
\* of their dedup key (every row, when no key column resolves)
FirstOccurrences(df) ==
    LET std == StandardizeAssigned(df)
        cs  == SubsetCols(std)
    IN  {i \in 1..Len(std.rows) :
            cs = <<>> \/ \A j \in 1..(i - 1) :
                            Key(std, std.rows[j], cs) # Key(std, std.rows[i], cs)}

\* C10: clean_bats_duplicates keeps exactly the first occurrence of each
\* distinct dedup key, in the original row order, and removed equals the
\* input row count minus the retained row count.
C10_KeepsFirstInOrder ==
    pc # "start" =>
        LET std == StandardizeAssigned(leads)
            K   == FirstOccurrences(leads)
        IN  /\ Len(dedup.out.rows) = Cardinality(K)
            /\ \A m \in 1..Cardinality(K) : dedup.out.rows[m] = std.rows[Nth(K, m)]
            /\ dedup.removed = Len(leads.rows) - Len(dedup.out.rows)

\* C10's case: a duplicate was dropped from between two rows that were kept
C10_Witness ==
    /\ pc = "deduped"
    /\ dedup.removed = 1
    /\ Len(dedup.out.rows) = 2
    /\ FirstOccurrences(leads) = {1, 3}

LowNames(df) == {Strip(Lower(Strip(df.cols[i]))) : i \in 1..Len(df.cols)}

\* the required roles that resolve to no column of the two tables, by the
\* labels the error message gives them
Unresolved(sales_df, bats_df) ==
       (IF LowNames(sales_df) \cap AgentNames = {} THEN {"Sales: Agent/Agents"} ELSE {})
    \cup (IF \A n \in LowNames(bats_df) : ~Contains(n, T_assigned)
          THEN {"BATS: Assigned To"} ELSE {})
    \cup (IF \A n \in LowNames(sales_df) : ~Contains(n, T_deposit)
          THEN {"Sales: Deposit"} ELSE {})
    \cup (IF \A n \in LowNames(bats_df) : ~Contains(n, T_source)
          THEN {"BATS: Source"} ELSE {})
    \cup (IF \/ LowNames(sales_df) \cap NameNames = {}
             \/ \A n \in LowNames(bats_df) : ~Contains(n, T_customername)
          THEN {"Name (Sales 'Name' and BATS 'Customer Name')"} ELSE {})

\* the parsed deposit of an input sales row
ParsedDepositOf(row) ==
    CleanCurrency(At(StripCols(sales), row, DetectCols(sales, leads).deposit_sales))

\* the input sales table without the rows whose deposit parses to a missing
\* or non-positive value
SalesWithoutNonPositive ==
    Frame(sales.cols, SelectSeq(sales.rows, LAMBDA row : PositiveDeposit(ParsedDepositOf(row))))

\* C3: every row of matched_sales has a non-null source and a deposit > 0 and
\* corresponds to an input sales row (same normalized name and agent) whose
\* parsed deposit is > 0; the rows whose deposit parses to a missing or
\* non-positive value contribute nothing: the result is the one the call
\* gives without them.
C3_MatchedBackedBySale ==
    pc = "matched" =>
        LET c == DetectCols(sales, leads)
            S == StripCols(sales)
        IN  /\ \A i \in 1..Len(match.out.rows) :
                  LET g == match.out.rows[i]
                  IN  /\ NotNa(At(match.out, g, H_Source))
                      /\ At(match.out, g, H_Deposit).t = "num"
                      /\ At(match.out, g, H_Deposit).n > 0
                      /\ \E j \in 1..Len(S.rows) :
                            /\ ParsedDepositOf(S.rows[j]).t = "num"
                            /\ ParsedDepositOf(S.rows[j]).n > 0
                            /\ NormText(At(S, S.rows[j], c.name_sales)) = At(match.out, g, H_Name)
                            /\ NormText(At(S, S.rows[j], c.sales_agent)) = At(match.out, g, H_Agent)
            /\ process_sales_data(SalesWithoutNonPositive, leads) = match

\* C3's case: a sale is matched while another input row, which a lead would
\* match by order id and agent, has a non-positive deposit
C3_Witness ==
    /\ pc = "matched"
    /\ Len(match.out.rows) >= 1
    /\ \E j \in 1..Len(sales.rows) :
          /\ ParsedDepositOf(sales.rows[j]).t = "num"
          /\ ParsedDepositOf(sales.rows[j]).n < 0
          /\ \E k \in 1..Len(leads.rows) :
                /\ HasCol(leads, H_Number) /\ HasCol(sales, H_OrderID)
                /\ At(leads, leads.rows[k], H_Number) = At(sales, sales.rows[j], H_OrderID)
                /\ NotNa(At(leads, leads.rows[k], H_Source))

\* the input sales table without the rows whose deposit float() rejects
SalesWithoutMalformed ==
    Frame(sales.cols, SelectSeq(sales.rows, LAMBDA row : ParsedDepositOf(row).t # "bad"))

\* C4: a deposit that cannot be parsed to a number never aborts
\* process_sales_data: with every required column there, the call returns,
\* and returns what it returns for the table without the malformed rows.
C4_MalformedNeverAborts ==
    (pc # "start" /\ Unresolved(sales, leads) = {}) =>
        /\ match.kind = "ok"
        /\ match = process_sales_data(SalesWithoutMalformed, leads)

\* C5: when a required role fails to resolve, process_sales_data raises
\* before any normalization, filtering or matching (also when a deposit is
\* malformed), returns nothing, and its one message names every unresolved
\* role.
C5_NamesEveryUnresolvedRole ==
    (pc # "start" /\ Unresolved(sales, leads) # {}) =>
        /\ pc = "raised"
        /\ DOMAIN match = {"kind", "missing"}
        /\ match.kind = "missing columns"
        /\ {match.missing[i] : i \in 1..Len(match.missing)} = Unresolved(sales, leads)

\* C5's case: several roles are unresolved at once, on both tables
C5_Witness ==
    /\ pc = "raised"
    /\ {"Sales: Deposit", "BATS: Source"} \subseteq Unresolved(sales, leads)
    /\ Cardinality(Unresolved(sales, leads)) >= 3

\* the sources of the leads that a sales_min row matches by order id and agent
Pass1Sources(s, sales_min, bats_min, c) ==
    IF c.order_id_sales = None \/ c.order_id_bats = None THEN {}
    ELSE { At(bats_min, bats_min.rows[k], c.source_bats) :
             k \in { k \in 1..Len(bats_min.rows) :
                       /\ At(bats_min, bats_min.rows[k], c.order_id_bats)
                             = At(sales_min, s, c.order_id_sales)
                       /\ At(bats_min, bats_min.rows[k], c.bats_assigned)
                             = At(sales_min, s, c.sales_agent) } }

\* the sources of the leads that a sales_min row matches by name and agent
Pass2Sources(s, sales_min, bats_min, c) ==
    { At(bats_min, bats_min.rows[k], c.source_bats) :
        k \in { k \in 1..Len(bats_min.rows) :
                  /\ At(bats_min, bats_min.rows[k], c.name_bats)
                        = At(sales_min, s, c.name_sales)
                  /\ At(bats_min, bats_min.rows[k], c.bats_assigned)
                        = At(sales_min, s, c.sales_agent) } }

\* s.split(", ")
RECURSIVE SplitIds(_)
SplitIds(s) ==
    IF \E i \in 1..(Len(s) - 1) : s[i] = "," /\ s[i + 1] = " "
    THEN LET i == CHOOSE i \in 1..(Len(s) - 1) :
                     /\ s[i] = "," /\ s[i + 1] = " "
                     /\ \A j \in 1..(i - 1) : ~(s[j] = "," /\ s[j + 1] = " ")
         IN  {SubSeq(s, 1, i - 1)} \cup SplitIds(SubSeq(s, i + 2, Len(s)))
    ELSE {s}

\* C6: a sales row that matches a lead in pass 1 (order id + agent) is not
\* among the rows joined in pass 2 (name + agent), and a matched_sales row
\* that lists its order id under its name and agent carries a source of its
\* order-id matches.
C6_Pass1Precedence ==
    pc = "matched" =>
        LET c  == DetectCols(sales, leads)
            sm == SalesMin(sales, c)
            bm == BatsMin(leads, c)
            un == UnmatchedSales(sm, FirstPass(sm, bm, c), c)
        IN  \A i \in 1..Len(sm.rows) :
                Pass1Sources(sm.rows[i], sm, bm, c) # {} =>
                    /\ \A j \in 1..Len(un.rows) : un.rows[j] # sm.rows[i]
                    /\ \A k \in 1..Len(match.out.rows) :
                          LET g == match.out.rows[k]
                          IN  ( /\ At(match.out, g, H_Name) = At(sm, sm.rows[i], c.name_sales)
                                /\ At(match.out, g, H_Agent) = At(sm, sm.rows[i], c.sales_agent)
                                /\ AsStr(At(sm, sm.rows[i], c.order_id_sales))
                                       \in SplitIds(At(match.out, g, H_OrderID).s) )
                              => At(match.out, g, H_Source)
                                    \in Pass1Sources(sm.rows[i], sm, bm, c)

\* C6's case: a sale matches one lead by order id and another lead, of
\* another source, by name, and is attributed
C6_Witness ==
    /\ pc = "matched"
    /\ Len(match.out.rows) >= 1
    /\ LET c  == DetectCols(sales, leads)
           sm == SalesMin(sales, c)
           bm == BatsMin(leads, c)
       IN  \E i \in 1..Len(sm.rows) :
              /\ Pass1Sources(sm.rows[i], sm, bm, c) = {FB}
              /\ GG \in Pass2Sources(sm.rows[i], sm, bm, c)
              /\ \E k \in 1..Len(match.out.rows) :
                    /\ At(match.out, match.out.rows[k], H_Source) = FB
                    /\ At(match.out, match.out.rows[k], H_Name)
                          = At(sm, sm.rows[i], c.name_sales)

\* a sales row with a positive parsed deposit and a lead with a source agree
\* on agent and assignee and on the order id (pass 1) or on the customer name
\* (pass 2), all text normalized
CandidateMatch(i, k) ==
    LET c == DetectCols(sales, leads)
        S == StripCols(sales)
        B == StripCols(leads)
        s == S.rows[i]
        b == B.rows[k]
    IN  /\ ParsedDepositOf(s).t = "num"
        /\ ParsedDepositOf(s).n > 0
        /\ NotNa(At(B, b, c.source_bats))
        /\ NormText(At(S, s, c.sales_agent)) = NormText(At(B, b, c.bats_assigned))
        /\ \/ /\ c.order_id_sales # None
              /\ c.order_id_bats # None
              /\ At(S, s, c.order_id_sales) = At(B, b, c.order_id_bats)
           \/ NormText(At(S, s, c.name_sales)) = NormText(At(B, b, c.name_bats))

\* no sales row survives the filtering and the matching: the table is empty,
\* or no deposit parses to a positive number, or no lead matches in a pass
NoSurvivor ==
    \A i \in 1..Len(sales.rows) : \A k \in 1..Len(leads.rows) : ~CandidateMatch(i, k)

\* C12: when no sales row survives the filtering and the matching,
\* process_sales_data returns (it does not raise) an empty matched-sales
\* table with the columns Order ID, Name, Agent, Deposit, Source and an
\* empty per-source summary.
C12_NoMatchReturnsEmpty ==
    (pc # "start" /\ Unresolved(sales, leads) = {} /\ NoSurvivor) =>
        /\ pc = "matched"
        /\ match.out = Frame(<<H_OrderID, H_Name, H_Agent, H_Deposit, H_Source>>, <<>>)
        /\ match.summary.rows = <<>>

\* the sales row i has a lead of its order id and agent: a pass-1 match
MatchedInPass1(i) ==
    LET c == DetectCols(sales, leads)
        S == StripCols(sales)
        B == StripCols(leads)
    IN  /\ c.order_id_sales # None
        /\ c.order_id_bats # None
        /\ \E k \in 1..Len(B.rows) :
              /\ At(S, S.rows[i], c.order_id_sales) = At(B, B.rows[k], c.order_id_bats)
              /\ NormText(At(S, S.rows[i], c.sales_agent))
                    = NormText(At(B, B.rows[k], c.bats_assigned))

\* the lead k has a source and the normalized customer name and assignee of
\* the sales row i
NameMatch(i, k) ==
    LET c == DetectCols(sales, leads)
        S == StripCols(sales)
        B == StripCols(leads)
    IN  /\ NotNa(At(B, B.rows[k], c.source_bats))
        /\ NormText(At(S, S.rows[i], c.name_sales)) = NormText(At(B, B.rows[k], c.name_bats))
        /\ NormText(At(S, S.rows[i], c.sales_agent))
              = NormText(At(B, B.rows[k], c.bats_assigned))

\* C13: every sales row with a positive deposit that pass 1 did not match
\* takes part in the name + agent join, a row without an order id in a table
\* with an order-id column included: for a lead with a source and the row's
\* normalized name and assignee, matched_sales has a row of that source,
\* name and agent that holds the row's deposit.
C13_UnmatchedRowsJoinByName ==
    pc = "matched" =>
        \A i \in 1..Len(sales.rows) : \A k \in 1..Len(leads.rows) :
            ( /\ ParsedDepositOf(sales.rows[i]).t = "num"
              /\ ParsedDepositOf(sales.rows[i]).n > 0
              /\ ~MatchedInPass1(i)
              /\ NameMatch(i, k) )
            => \E g \in 1..Len(match.out.rows) :
                  LET c == DetectCols(sales, leads)
                      r == match.out.rows[g]
                  IN  /\ At(match.out, r, H_Source) = At(StripCols(leads), leads.rows[k], c.source_bats)
                      /\ At(match.out, r, H_Name)
                            = NormText(At(StripCols(sales), sales.rows[i], c.name_sales))
                      /\ At(match.out, r, H_Agent)
                            = NormText(At(StripCols(sales), sales.rows[i], c.sales_agent))
                      /\ At(match.out, r, H_Deposit).n >= ParsedDepositOf(sales.rows[i]).n

\* the matches of the two passes, as pairs <<i, k>> of a row of sales_min and
\* a lead of bats_min that has a source: pass 1 pairs the rows that agree on
\* order id and agent, pass 2 pairs by name and agent the sales whose order
\* id no pass-1 match carries
MatchPairs ==
    LET c  == DetectCols(sales, leads)
        sm == SalesMin(sales, c)
        bm == BatsMin(leads, c)
        I  == 1..Len(sm.rows)
        K  == 1..Len(bm.rows)
        Agents(i, k) == At(sm, sm.rows[i], c.sales_agent) = At(bm, bm.rows[k], c.bats_assigned)
        P1 == IF c.order_id_sales = None \/ c.order_id_bats = None THEN {}
              ELSE { p \in I \X K :
                       /\ At(sm, sm.rows[p[1]], c.order_id_sales)
                             = At(bm, bm.rows[p[2]], c.order_id_bats)
                       /\ Agents(p[1], p[2]) }
        ids == { AsStr(At(sm, sm.rows[p[1]], c.order_id_sales)) : p \in P1 }
        P2 == { p \in I \X K :
                  /\ P1 = {} \/ AsStr(At(sm, sm.rows[p[1]], c.order_id_sales)) \notin ids
                  /\ At(sm, sm.rows[p[1]], c.name_sales) = At(bm, bm.rows[p[2]], c.name_bats)
                  /\ Agents(p[1], p[2]) }
    IN  { p \in P1 \cup P2 : NotNa(At(bm, bm.rows[p[2]], c.source_bats)) }

\* the (source, customer name, agent) of a match
PairIdentity(p) ==
    LET c  == DetectCols(sales, leads)
        sm == SalesMin(sales, c)
        bm == BatsMin(leads, c)
    IN  << At(bm, bm.rows[p[2]], c.source_bats),
           At(sm, sm.rows[p[1]], c.name_sales),
           At(sm, sm.rows[p[1]], c.sales_agent) >>

\* the sum of the deposits of a set of matches
RECURSIVE PairDeposits(_)
PairDeposits(P) ==
    IF P = {} THEN 0
    ELSE LET p  == CHOOSE q \in P : TRUE
             c  == DetectCols(sales, leads)
             sm == SalesMin(sales, c)
         IN  At(sm, sm.rows[p[1]], c.deposit_sales).n + PairDeposits(P \ {p})

\* the distinct order ids of a set of matches, sorted and joined by ", "
PairOrderIds(P) ==
    LET c   == DetectCols(sales, leads)
        sm  == SalesMin(sales, c)
        ids == IF c.order_id_sales = None THEN {}
               ELSE { <<Str(AsStr(At(sm, sm.rows[p[1]], c.order_id_sales)))>> : p \in P }
        srt == SortKeys(ids)
    IN  Str(Join(<<",", " ">>, [i \in 1..Len(srt) |-> srt[i][1].s]))

\* C14: no two rows of matched_sales share (source, customer name, agent);
\* the deposit of a row is the sum of the deposits of all the matches of the
\* two passes with its identity, and its order-id field is the list of their
\* distinct order ids, sorted and joined by commas.
C14_OneRowPerIdentity ==
    pc = "matched" =>
        LET R == match.out
            Id(g) == << At(R, R.rows[g], H_Source), At(R, R.rows[g], H_Name),
                        At(R, R.rows[g], H_Agent) >>
            Of(g) == { p \in MatchPairs : PairIdentity(p) = Id(g) }
        IN  /\ \A g, h \in 1..Len(R.rows) : g # h => Id(g) # Id(h)
            /\ \A g \in 1..Len(R.rows) :
                  /\ At(R, R.rows[g], H_Deposit) = Num(PairDeposits(Of(g)))
                  /\ At(R, R.rows[g], H_OrderID) = PairOrderIds(Of(g))

\* the sum of the positive parsed deposits of the input sales rows
PositiveDepositsOfInput ==
    SumCells([i \in 1..Len(sales.rows) |->
                 IF PositiveDeposit(ParsedDepositOf(sales.rows[i]))
                 THEN ParsedDepositOf(sales.rows[i]) ELSE Num(0)])

\* C16: no deposit is counted more than once: the sum of Deposit over the
\* rows of matched_sales is at most the sum of the positive parsed deposits
\* of the input sales rows, also when several leads match the same sale.
C16_NoDepositCountedTwice ==
    pc = "matched" =>
        SumCells(Column(match.out, H_Deposit)) <= PositiveDepositsOfInput

(***************************************************************************)
(* Claims about the report                                                 *)
(***************************************************************************)

\* the rows of matched_sales with a given source: one per (source, name, agent)
GroupsOf(src) ==
    { i \in 1..Len(match.out.rows) : At(match.out, match.out.rows[i], H_Source) = src }

\* C7: for every source of the report, total_unique_sales is the number of
\* matched_sales rows (the distinct (source, name, agent) groups) with that
\* source, 0 when there are none.
C7_UniqueSalesCountsGroups ==
    (pc = "reported" /\ report.kind = "ok") =>
        \A i \in 1..Len(report.out.rows) :
            At(report.out, report.out.rows[i], H_TotalUniqueSales)
               = Num(Cardinality(GroupsOf(At(report.out, report.out.rows[i], H_Source))))

\* the source values of the lead table given to compare_bats_sales, a
\* missing one included
LeadSources == { At(cmpleads, cmpleads.rows[i], H_Source) : i \in 1..Len(cmpleads.rows) }

\* C8: the report has exactly one row for each distinct source value of the
\* lead table (a missing source included, in the last row) and none for
\* another source; the rows ascend by source; total_leads is the number of
\* lead rows with the row's source.
C8_OneRowPerLeadSource ==
    (pc = "reported" /\ report.kind = "ok") =>
        LET R == report.out
            src(i) == At(R, R.rows[i], H_Source)
        IN  /\ {src(i) : i \in 1..Len(R.rows)} = LeadSources
            /\ \A i, j \in 1..Len(R.rows) : i < j => CellLess(src(i), src(j))
            /\ \A i \in 1..Len(R.rows) :
                  At(R, R.rows[i], H_TotalLeads)
                     = Num(Cardinality({k \in 1..Len(cmpleads.rows) :
                                           At(cmpleads, cmpleads.rows[k], H_Source) = src(i)}))

\* C9: for every report row, lead_cost is the cost table's entry for the
\* source when there is one and 1.00 otherwise, and total_leads_cost is
\* total_leads x lead_cost rounded to 2 decimals: the nearest hundredth, and
\* of two nearest ones the even one.
C9_LeadCostAndTotal ==
    (pc = "reported" /\ report.kind = "ok") =>
        \A i \in 1..Len(report.out.rows) :
            LET R == report.out
                s == At(R, R.rows[i], H_Source)
                n == At(R, R.rows[i], H_TotalLeads).n
                c == At(R, R.rows[i], H_LeadCost).n
                t == At(R, R.rows[i], H_TotalLeadsCost).n
            IN  /\ c = IF s.t = "str" /\ s.s \in {FB.s, GG.s}
                       THEN (IF s = FB THEN 2500 ELSE 125)
                       ELSE 1000
                /\ 10 * t - n * c \in -5..5
                /\ (10 * t - n * c \in {-5, 5}) => t % 2 = 0

\* C9's case: one row takes its cost from the table and its total is rounded
\* at a tie, another row's source is not in the table
C9_Witness ==
    /\ pc = "reported"
    /\ report.kind = "ok"
    /\ \E i, j \in 1..Len(report.out.rows) :
          /\ At(report.out, report.out.rows[i], H_Source) = GG
          /\ At(report.out, report.out.rows[i], H_TotalLeads).n * 125 % 10 = 5
          /\ At(report.out, report.out.rows[j], H_Source).s \notin DOMAIN lead_costs
          /\ At(report.out, report.out.rows[j], H_LeadCost) = Num(1000)

(***************************************************************************)
(* Claims about the application                                            *)
(***************************************************************************)

\* C15: whatever the user does, a report on display was computed from leads
\* that were already deduplicated: the deduplicator finds nothing to remove
\* in them, and total_leads of every row is the number of deduplicated leads
\* of the row's source.
C15_ReportsFromDedupedLeads ==
    report.kind = "ok" =>
        LET d == clean_bats_duplicates(cmpleads)
        IN  /\ d.removed = 0
            /\ \A i \in 1..Len(report.out.rows) :
                  At(report.out, report.out.rows[i], H_TotalLeads)
                     = Num(Cardinality({k \in 1..Len(d.out.rows) :
                                          At(d.out, d.out.rows[k], H_Source)
                                             = At(report.out, report.out.rows[i], H_Source)}))

=============================================================================
